---- MODULE Spec2Model ----
(***************************************************************************)
(* Model of cas_lookup_app.py: the batch resolution of CAS numbers done by *)
(* process_file (main thread + ThreadPoolExecutor workers) and the         *)
(* per-identifier resolver fetch_cas_info (override table, then up to      *)
(* three remote attempts).                                                 *)
(*                                                                         *)
(* Positions are 1-based here (Python index i is position i+1).            *)
(***************************************************************************)
EXTENDS Integers, Sequences, FiniteSets, TLC

VARIABLES
    cells,            \* df.iloc[:, 0]: the raw first column read from the sheet
    kinds,            \* the kinds of answer the remote service gives in this run
                      \* (none: the service accepts requests and never answers)
    pc,               \* position of the main thread inside process_file
    cas_series,       \* the normalised identifier column (line 99)
    formulas,         \* list allocated at line 121
    weights,          \* list allocated at line 122
    idx,              \* position the submission loop (line 128) handles next
    futures,          \* the submitted work items, in submission order
    future_to_index,  \* dict of line 127, future -> list index
    collected,        \* futures as_completed has yielded and line 141-142 stored
    columns,          \* the columns process_file added to the returned frame
    reordered         \* history: a future was yielded before an older one

vars == <<cells, kinds, pc, cas_series, formulas, weights, idx, futures,
          future_to_index, collected, columns, reordered>>

----------------------------------------------------------------------------
(* Bounds of the model. *)

MaxLen == 3        \* longest input column of the batch specification
PoolLen == 5       \* length of the input column of the pool specification
LiveLen == 2       \* longest input column of the liveness specification
ResolverLen == 1   \* length of the input column of the resolver specification
TrimLen == 2       \* longest input column of the whitespace specification

----------------------------------------------------------------------------
(* Python values: None, float and str are kept apart by a tag. *)

None == [t |-> "None"]
Fl(r) == [t |-> "float", repr |-> r]
St(s) == [t |-> "str", s |-> s]

(* A missing cell of the sheet (NaN), as opposed to any text. *)
NaN == "<NaN>"

(* float(): numbers pass, numeric text is parsed to the number it denotes, *)
(* None raises TypeError and other text raises ValueError.                 *)
FloatLiterals ==
    [s \in {"30.026", "30.0260", "46.07"} |->
        CASE s = "30.026" -> "30.026"
          [] s = "30.0260" -> "30.026"
          [] s = "46.07" -> "46.07"]

float_(raw) ==
    CASE raw.t = "float" -> [raises |-> FALSE, value |-> raw]
      [] raw.t = "str" /\ raw.s \in DOMAIN FloatLiterals ->
            [raises |-> FALSE, value |-> Fl(FloatLiterals[raw.s])]
      [] OTHER -> [raises |-> TRUE, value |-> None]

----------------------------------------------------------------------------
(* manual_data, lines 102-118. *)

manual_keys ==
    {"77536-66-4", "77536-67-5", "77536-68-6", "13768-00-8", "17068-78-9",
     "12172-67-7", "12172-73-5", "12001-28-4", "12001-29-5", "1332-21-4",
     "132207-32-0", "132207-33-1", "14567-73-8", "12185-10-3", "25512-42-9"}

manual_data ==
    [k \in manual_keys |->
        CASE k = "77536-66-4" -> <<St("Ca2Fe5H2O24Si8"), Fl("970.1")>>
          [] k = "77536-67-5" -> <<St("H2Mg7O24Si8"), Fl("780.82")>>
          [] k = "77536-68-6" -> <<St("Ca2H2Mg5O24Si8"), Fl("812.37")>>
          [] k = "13768-00-8" -> <<St("Fe2H16Mg3Na2O24Si8+14"), Fl("855.38")>>
          [] k = "17068-78-9" -> <<St("Fe7H2O24Si8"), Fl("1001.6")>>
          [] k = "12172-67-7" -> <<St("Ca2Fe5H2O24Si8"), Fl("970.1")>>
          [] k = "12172-73-5" -> <<St("Fe7H2O24Si8"), Fl("1001.6")>>
          [] k = "12001-28-4" -> <<St("Fe2H16Mg3Na2O24Si8+14"), Fl("855.38")>>
          [] k = "12001-29-5" -> <<St("H4Mg3O9Si2"), Fl("277.11")>>
          [] k = "1332-21-4" -> <<None, None>>
          [] k = "132207-32-0" -> <<St("Ca2H2Mg5O24Si8"), Fl("812.37")>>
          [] k = "132207-33-1" -> <<St("Fe2H16Mg3Na2O24Si8+14"), Fl("855.38")>>
          [] k = "14567-73-8" -> <<St("H4Mg3O9Si2"), Fl("277.11")>>
          [] k = "12185-10-3" -> <<St("P4"), Fl("123.8950480")>>
          [] k = "25512-42-9" -> <<St("C12H8Cl2"), Fl("223.09792")>>]

(* A resolver that goes to the remote service without looking up. *)
OverrideHitNever(cas) == FALSE

(* A lookup that takes a null-valued entry for a miss. *)
OverrideHitNonNull(cas) ==
    cas \in DOMAIN manual_data /\ manual_data[cas] # <<None, None>>

(* `cas in manual_data`, line 49 *)
OverrideHit(cas) == cas \in DOMAIN manual_data

----------------------------------------------------------------------------
(* The remote service, seen through what lines 61-69 read of its answer.   *)

RemoteTable ==
    [c \in {"50-00-0", "64-17-5"} |->
        IF c = "50-00-0"
        THEN [MolecularFormula |-> St("CH2O"), MolecularWeight |-> St("30.0260")]
        ELSE [MolecularFormula |-> St("C2H6O"), MolecularWeight |-> Fl("46.07")]]

FailKinds == {"transport", "timeout", "status", "malformed", "unexpected", "empty"}
OkKinds == {"ok", "ok_na", "ok_noweight"}
AllKinds == FailKinds \cup OkKinds

(* The answer of kind k to a request for cas. *)
Response(k, cas) ==
    [kind |-> k,
     raises |-> k \in {"transport", "timeout", "unexpected"},
     status_code |-> IF k = "status" THEN 404 ELSE 200,
     json_raises |-> k = "malformed",
     properties |->
        CASE k = "ok" -> <<RemoteTable[cas]>>
          [] k = "ok_na" ->
                <<[RemoteTable[cas] EXCEPT !.MolecularWeight = St("N/A")]>>
          [] k = "ok_noweight" ->
                <<[RemoteTable[cas] EXCEPT !.MolecularWeight = None]>>
          [] OTHER -> <<>>]

(* The kinds of answer the service can give for cas. *)
KindsFor(cas) ==
    IF cas \in DOMAIN RemoteTable THEN AllKinds ELSE FailKinds

(* One pass of the loop body, lines 60-78, on the answer resp:             *)
(* ret = TRUE when line 75 returns, with the value returned.               *)
HandleNoReturn(resp) == [ret |-> FALSE, value |-> <<None, None>>]

(* A loop body that gives up at once on a status other than 200 or on an  *)
(* empty property list.                                                    *)
HandleNotFoundEnds(resp) ==
    IF resp.raises \/ resp.json_raises
    THEN [ret |-> FALSE, value |-> <<None, None>>]
    ELSE IF resp.status_code # 200 \/ resp.properties = <<>>
    THEN [ret |-> TRUE, value |-> <<None, None>>]
    ELSE LET prop == resp.properties[1]
             w == float_(prop.MolecularWeight)
         IN  [ret |-> TRUE,
              value |-> <<prop.MolecularFormula,
                          IF w.raises THEN None ELSE w.value>>]

(* A loop body without the inner try of lines 71-74: the error float()     *)
(* raises reaches the except clause of line 77 and the attempt has failed. *)
HandleWeightFails(resp) ==
    IF resp.raises \/ resp.status_code # 200 \/ resp.json_raises
          \/ resp.properties = <<>>
    THEN [ret |-> FALSE, value |-> <<None, None>>]
    ELSE LET prop == resp.properties[1]
             w == float_(prop.MolecularWeight)
         IN  IF w.raises
             THEN [ret |-> FALSE, value |-> <<None, None>>]
             ELSE [ret |-> TRUE, value |-> <<prop.MolecularFormula, w.value>>]

Handle(resp) ==
    IF resp.raises \/ resp.status_code # 200 \/ resp.json_raises
          \/ resp.properties = <<>>
    THEN [ret |-> FALSE, value |-> <<None, None>>]
    ELSE LET prop == resp.properties[1]
             w == float_(prop.MolecularWeight)
         IN  [ret |-> TRUE,
              value |-> <<prop.MolecularFormula,
                          IF w.raises THEN None ELSE w.value>>]

(* An except clause that lets the exception kinds in escaping pass.        *)
EscapesSome(resp) == resp.kind = "unexpected"

(* `except Exception` of line 77: no exception of an attempt escapes.      *)
Escapes(resp) == FALSE

(* timeout=10, line 61: a request that is not answered ends in a timeout. *)
ClientNoTimeout == {}

ClientTimeout == {"timeout"}

(* The kinds of answer a request for cas can end in. *)
Answers(cas, ks) ==
    LET a == ks \cap KindsFor(cas)
    IN  IF a = {} THEN ClientTimeout ELSE a

(* range(3), line 59 *)
MaxAttempts == 3

LoopLimitPlusOne == MaxAttempts + 1

LoopLimitMinusOne == MaxAttempts - 1

LoopLimit == MaxAttempts

(* max_workers, line 125 *)
max_workers == 4

PoolLimitPlusOne == max_workers + 1

PoolLimit == max_workers

----------------------------------------------------------------------------
(* Normalisation of the column, line 99: .astype(str).fillna("").          *)
(* What astype(str) makes of a missing cell depends on the pandas release  *)
(* the program runs with: the text "nan" before pandas 3, the missing      *)
(* value itself from pandas 3 on (keeps = TRUE).                           *)
StrKeepsNa == BOOLEAN

(* str.strip() on the cell texts of the model. *)
Strip(c) ==
    CASE c = " 77536-66-4" -> "77536-66-4"
      [] c = "1332-21-4 " -> "1332-21-4"
      [] c = "  " -> ""
      [] OTHER -> c

(* A coercion that also trims the text. *)
astype_str_strip(c, keeps) ==
    IF c = NaN /\ ~keeps THEN "nan" ELSE Strip(c)

astype_str(c, keeps) == IF c = NaN /\ ~keeps THEN "nan" ELSE c

fillna(c) == IF c = NaN THEN "" ELSE c

Normalise(col, keeps) ==
    [i \in 1..Len(col) |-> fillna(astype_str(col[i], keeps))]

(* [None] * n *)
NoneListShort(n) == [i \in 1..(n - 1) |-> None]

NoneList(n) == [i \in 1..n |-> None]

(* `not cas`, line 130 *)
SkipNever(cas) == FALSE

(* A loop that also passes over the keys of manual_data. *)
SkipOverride(cas) == cas = "" \/ cas \in DOMAIN manual_data

Skip(cas) == cas = ""

(* The index stored at line 133 for the future created at position i,      *)
(* when nf futures were created before it.                                 *)
IndexByCount(i, nf) == nf + 1

IndexFirst(i, nf) == 1

IndexFor(i, nf) == i

----------------------------------------------------------------------------
(* State of one submitted work item. *)

(* pos is history: the input position the item was created for.            *)
NewFuture(cas, pos) ==
    [cas |-> cas, pos |-> pos, phase |-> "queued", attempt |-> 0, calls |-> 0,
     log |-> <<>>, result |-> <<None, None>>, raised |-> FALSE]

Fids == 1..Len(futures)

Running == {f \in Fids : futures[f].phase \in {"begin", "loop", "inflight"}}

InFlight == {f \in Fids : futures[f].phase = "inflight"}

Queued == {f \in Fids : futures[f].phase = "queued"}

Done == {f \in Fids : futures[f].phase = "done"}

----------------------------------------------------------------------------
(* Input sets. *)

RECURSIVE SeqsOfLen(_, _)
SeqsOfLen(S, n) ==
    IF n = 0 THEN {<<>>}
    ELSE {Append(q, x) : q \in SeqsOfLen(S, n - 1), x \in S}

SeqsUpTo(S, n) == UNION {SeqsOfLen(S, k) : k \in 0..n}

BatchCells == {"", NaN, "77536-66-4", "1332-21-4", "50-00-0"}
BatchKinds == {{"ok", "timeout"}}

ResolverCells == {"64-17-5", "1332-21-4"}

PoolCells == {"50-00-0"}
PoolKinds == {{"ok"}, {}}

LiveCells == {"", "50-00-0", "0000-00-0"}
LiveKinds == {{"ok", "status"}, {"unexpected"}, {}}

InitWith(inputs, ks) ==
    /\ cells \in inputs
    /\ kinds \in ks
    /\ pc = "read"
    /\ cas_series = <<>>
    /\ formulas = <<>>
    /\ weights = <<>>
    /\ idx = 1
    /\ futures = <<>>
    /\ future_to_index = <<>>
    /\ collected = {}
    /\ columns = [added |-> FALSE, formulas |-> <<>>, weights |-> <<>>]
    /\ reordered = FALSE

Init == InitWith(SeqsUpTo(BatchCells, MaxLen), BatchKinds)

InitResolver == InitWith(SeqsOfLen(ResolverCells, ResolverLen), {AllKinds})

InitPool == InitWith(SeqsOfLen(PoolCells, PoolLen), PoolKinds)

InitLive == InitWith(SeqsUpTo(LiveCells, LiveLen), LiveKinds)

(* Columns of empty cells, one override key and one remote identifier,    *)
(* which may repeat.                                                       *)
SlotCells == {"", "1332-21-4", "50-00-0"}

InitSlots == InitWith(SeqsUpTo(SlotCells, MaxLen), BatchKinds)

(* Cells with blanks around or instead of the identifier. *)
TrimCells == {" 77536-66-4", "1332-21-4 ", "  ", "77536-66-4"}
TrimKinds == {{"status"}, {}}

InitTrim == InitWith(SeqsUpTo(TrimCells, TrimLen), TrimKinds)

(* The worked example: an override key, an empty cell and an identifier    *)
(* unknown to the table, with a remote service that fails in every way.    *)
ExampleCells == <<"77536-66-4", "", "0000-00-0">>

InitExample == InitWith({ExampleCells}, {FailKinds})

----------------------------------------------------------------------------
(* The main thread: process_file. *)

(* Lines 95-122: read the sheet; an empty frame is returned as it is,      *)
(* otherwise the column is normalised and the two lists are allocated.     *)
ReadFile ==
    /\ pc = "read"
    /\ IF cells = <<>>
       THEN /\ pc' = "returned"
            /\ UNCHANGED <<cas_series, formulas, weights>>
       ELSE /\ pc' = "submit"
            /\ \E keeps \in StrKeepsNa : cas_series' = Normalise(cells, keeps)
            /\ formulas' = NoneList(Len(cells))
            /\ weights' = NoneList(Len(cells))
    /\ UNCHANGED <<cells, kinds, idx, futures, future_to_index, collected,
                   columns, reordered>>

(* Lines 128-133: one iteration of the submission loop. *)
SubmitNext ==
    /\ pc = "submit"
    /\ LET cas == cas_series[idx]
       IN  IF Skip(cas)
           THEN UNCHANGED <<futures, future_to_index>>
           ELSE /\ futures' = Append(futures, NewFuture(cas, idx))
                /\ future_to_index' =
                       Append(future_to_index, IndexFor(idx, Len(futures)))
    /\ idx' = idx + 1
    /\ pc' = IF idx = Len(cas_series) THEN "collect" ELSE "submit"
    /\ UNCHANGED <<cells, kinds, cas_series, formulas, weights, collected,
                   columns, reordered>>

(* as_completed (line 135) yields the futures that have finished. *)
Completed(f) == futures[f].phase = "done"

(* Lines 135-142: as_completed yields a finished future, its result (or    *)
(* (None, None) if it raised) is stored at the index mapped to it.         *)
Collect(f) ==
    /\ pc = "collect"
    /\ f \in Fids
    /\ f \notin collected
    /\ Completed(f)
    /\ LET i == future_to_index[f]
           r == IF futures[f].raised THEN <<None, None>> ELSE futures[f].result
       IN  /\ formulas' = [formulas EXCEPT ![i] = r[1]]
           /\ weights' = [weights EXCEPT ![i] = r[2]]
    /\ collected' = collected \cup {f}
    /\ reordered' = (reordered \/ \E g \in Fids : g < f /\ g \notin collected)
    /\ UNCHANGED <<cells, kinds, pc, cas_series, idx, futures,
                   future_to_index, columns>>

(* as_completed is exhausted once it has yielded ... *)
ExhaustedEarly == collected # {} \/ Fids = {}

(* A loop that is left at the first result without a value. *)
ExhaustedOnFailure ==
    \/ collected = Fids
    \/ \E f \in collected :
          futures[f].raised \/ futures[f].result = <<None, None>>

(* ... every future of future_to_index. *)
Exhausted == collected = Fids

(* Lines 143-147: leave the `with` block (shutdown waits for the workers), *)
(* add the two columns and return the frame.                               *)
Return ==
    /\ pc = "collect"
    /\ Exhausted
    /\ Running = {}
    /\ Queued = {}
    /\ columns' = [added |-> TRUE, formulas |-> formulas, weights |-> weights]
    /\ pc' = "returned"
    /\ UNCHANGED <<cells, kinds, cas_series, formulas, weights, idx, futures,
                   future_to_index, collected, reordered>>

----------------------------------------------------------------------------
(* The pool's workers, each running fetch_cas_info for one work item. *)

(* A worker takes the oldest queued item when fewer than max_workers run.  *)
WorkerStart(f) ==
    /\ pc \in {"submit", "collect"}
    /\ f \in Queued
    /\ \A g \in Queued : f <= g
    /\ Cardinality(Running) < PoolLimit
    /\ futures' = [futures EXCEPT ![f].phase = "begin"]
    /\ UNCHANGED <<cells, kinds, pc, cas_series, formulas, weights, idx,
                   future_to_index, collected, columns, reordered>>

(* Lines 49-50: the override table is looked up first. *)
Enter(f) ==
    /\ f \in Fids
    /\ futures[f].phase = "begin"
    /\ futures' =
          IF OverrideHit(futures[f].cas)
          THEN [futures EXCEPT ![f].phase = "done",
                               ![f].result = manual_data[futures[f].cas]]
          ELSE [futures EXCEPT ![f].phase = "loop"]
    /\ UNCHANGED <<cells, kinds, pc, cas_series, formulas, weights, idx,
                   future_to_index, collected, columns, reordered>>

(* Lines 59-61 and 80: start the next attempt and send its request, or     *)
(* return (None, None) when the attempts are used up.                      *)
Loop(f) ==
    /\ f \in Fids
    /\ futures[f].phase = "loop"
    /\ futures' =
          IF futures[f].attempt >= LoopLimit
          THEN [futures EXCEPT ![f].phase = "done",
                               ![f].result = <<None, None>>]
          ELSE [futures EXCEPT ![f].phase = "inflight",
                               ![f].attempt = @ + 1,
                               ![f].calls = @ + 1]
    /\ UNCHANGED <<cells, kinds, pc, cas_series, formulas, weights, idx,
                   future_to_index, collected, columns, reordered>>

(* Lines 61-78: the request of the running attempt is answered. *)
Respond(f, k) ==
    /\ f \in Fids
    /\ futures[f].phase = "inflight"
    /\ k \in Answers(futures[f].cas, kinds)
    /\ LET resp == Response(k, futures[f].cas)
           h == Handle(resp)
           logged == [futures EXCEPT ![f].log = Append(@, k)]
       IN  futures' =
              IF resp.raises /\ Escapes(resp)
              THEN [logged EXCEPT ![f].phase = "done", ![f].raised = TRUE]
              ELSE IF h.ret
              THEN [logged EXCEPT ![f].phase = "done", ![f].result = h.value]
              ELSE [logged EXCEPT ![f].phase = "loop"]
    /\ UNCHANGED <<cells, kinds, pc, cas_series, formulas, weights, idx,
                   future_to_index, collected, columns, reordered>>

Next ==
    \/ ReadFile
    \/ SubmitNext
    \/ \E f \in Fids : Collect(f)
    \/ Return
    \/ \E f \in Fids : WorkerStart(f)
    \/ \E f \in Fids : Enter(f)
    \/ \E f \in Fids : Loop(f)
    \/ \E f \in Fids, k \in AllKinds : Respond(f, k)

Spec == Init /\ [][Next]_vars

SpecResolver == InitResolver /\ [][Next]_vars

SpecPool == InitPool /\ [][Next]_vars

SpecExample == InitExample /\ [][Next]_vars

SpecTrim == InitTrim /\ [][Next]_vars

SpecSlots == InitSlots /\ [][Next]_vars

(* Fairness: the main thread and every worker keep being scheduled, and    *)
(* every request is answered (requests.get returns or times out).          *)
Fairness ==
    /\ WF_vars(ReadFile)
    /\ WF_vars(SubmitNext)
    /\ WF_vars(Return)
    /\ \A f \in 1..LiveLen :
          /\ WF_vars(Collect(f))
          /\ WF_vars(WorkerStart(f))
          /\ WF_vars(Enter(f))
          /\ WF_vars(Loop(f))
          /\ WF_vars(\E k \in AllKinds : Respond(f, k))

SpecLive == InitLive /\ [][Next]_vars /\ Fairness

----------------------------------------------------------------------------
(* Notions the properties below are stated with. *)

Positions == 1..Len(cas_series)

Returned == pc = "returned"

(* The pair stored for input position i. *)
Slot(i) == <<formulas[i], weights[i]>>

(* The pair the returned frame shows for input position i. *)
Cell(i) == <<columns.formulas[i], columns.weights[i]>>

(* What the coordinator sees of a finished work item. *)
Seen(f) == IF futures[f].raised THEN <<None, None>> ELSE futures[f].result

(* The work items created for input position i. *)
ItemsAt(i) == {f \in Fids : futures[f].pos = i}

Failed(log) == \A j \in 1..Len(log) : log[j] \in FailKinds

(* The record the remote service holds for cas, as the pair an answer of  *)
(* kind k carries: the formula and the weight as a number.                *)
RecordOf(cas, k) ==
    <<RemoteTable[cas].MolecularFormula,
      IF k \in {"ok_na", "ok_noweight"} THEN None
      ELSE IF cas = "50-00-0" THEN Fl("30.026") ELSE Fl("46.07")>>

----------------------------------------------------------------------------
(* C1: once process_file has returned, the pair at every input position is *)
(* the result of the work item created for that position (the pair stays   *)
(* (None, None) where no item was created), whatever the completion order. *)
C1_IndexAligned ==
    Returned /\ columns.added =>
        \A i \in Positions :
            /\ Cardinality(ItemsAt(i)) <= 1
            /\ \A f \in ItemsAt(i) :
                  futures[f].cas = cas_series[i] /\ Cell(i) = Seen(f)
            /\ ItemsAt(i) = {} => Cell(i) = <<None, None>>

(* Two items with different results, created after a skipped cell, were    *)
(* yielded out of submission order, and the batch has returned.            *)
C1_Witness ==
    /\ Returned
    /\ reordered
    /\ Len(futures) >= 2
    /\ future_to_index[1] # 1
    /\ Seen(1) # Seen(2)
    /\ Seen(1) # <<None, None>>

----------------------------------------------------------------------------
(* C2: a work item whose identifier is a key of manual_data never sends a  *)
(* request and finishes with exactly the table's pair, also when that pair *)
(* is (None, None); the pair is what the returned frame shows at the       *)
(* identifier's position, wherever that is.                                *)
C2_OverrideWins ==
    /\ \A f \in Fids :
          futures[f].cas \in manual_keys =>
              /\ futures[f].calls = 0
              /\ futures[f].log = <<>>
              /\ futures[f].phase \in {"queued", "begin", "done"}
              /\ futures[f].phase = "done" =>
                    ~futures[f].raised
                    /\ futures[f].result = manual_data[futures[f].cas]
    /\ Returned /\ columns.added =>
          \A i \in Positions :
              cas_series[i] \in manual_keys => Cell(i) = manual_data[cas_series[i]]

(* The batch has returned; "1332-21-4" stood after the first position, its *)
(* item ran and ended with (None, None), and another override gave values. *)
C2_Witness ==
    /\ Returned
    /\ \E i \in Positions, f \in Fids :
          /\ i > 1
          /\ cas_series[i] = "1332-21-4"
          /\ futures[f].pos = i
          /\ futures[f].phase = "done"
          /\ Cell(i) = <<None, None>>
    /\ \E j \in Positions :
          cas_series[j] = "77536-66-4"
          /\ Cell(j) = <<St("Ca2Fe5H2O24Si8"), Fl("970.1")>>

(* C3: in every state the number of requests in flight is at most          *)
(* max_workers = 4; a work item beyond that stays queued.                  *)
C3_InFlightBounded ==
    /\ Cardinality(InFlight) <= 4
    /\ Cardinality(Running) <= 4

(* Four requests are in flight while a fifth work item waits in the queue. *)
C3_Witness ==
    /\ Cardinality(InFlight) = 4
    /\ Queued # {}

(* C4: no identifier is requested more than 3 times; after 3 failed        *)
(* attempts the item sends nothing more, ends with (None, None), and that  *)
(* pair is what the returned frame shows.                                  *)
C4_ExhaustedAfterThree ==
    \A f \in Fids :
        /\ futures[f].calls <= 3
        /\ Len(futures[f].log) = 3 /\ Failed(futures[f].log) =>
              /\ futures[f].calls = 3
              /\ futures[f].phase \in {"loop", "done"}
              /\ futures[f].phase = "done" => Seen(f) = <<None, None>>
              /\ Returned => futures[f].phase = "done"
                             /\ Cell(futures[f].pos) = <<None, None>>

(* The batch has returned with an item that failed three times, for an     *)
(* identifier the remote service knows.                                    *)
C4_Witness ==
    /\ Returned
    /\ \E f \in Fids :
          /\ Len(futures[f].log) = 3
          /\ Failed(futures[f].log)
          /\ futures[f].cas \in DOMAIN RemoteTable
          /\ futures[f].calls = 3

(* C5: an item whose attempts 1 and 2 failed and whose attempt 3 succeeded *)
(* has sent exactly 3 requests and ends with the record attempt 3 carried, *)
(* which is what the returned frame shows.                                 *)
C5_ThirdAttemptCounts ==
    \A f \in Fids :
        LET log == futures[f].log
        IN  Len(log) = 3 /\ log[1] \in FailKinds /\ log[2] \in FailKinds
                /\ log[3] \in OkKinds =>
              /\ futures[f].calls = 3
              /\ futures[f].phase = "done"
              /\ Seen(f) = RecordOf(futures[f].cas, log[3])
              /\ Returned => Cell(futures[f].pos) = RecordOf(futures[f].cas, log[3])

(* The batch has returned with an item that failed twice (once by an       *)
(* exception, once by a bad status) and then got a full record.            *)
C5_Witness ==
    /\ Returned
    /\ \E f \in Fids :
          /\ futures[f].log = <<"transport", "status", "ok">>
          /\ Cell(futures[f].pos) = <<St("C2H6O"), Fl("46.07")>>

(* C6: an empty identifier never gets a work item (so no request is sent   *)
(* for it) and its pair is (None, None) in every state and in the returned *)
(* frame, at whatever position it stands.                                  *)
C6_EmptySkipped ==
    /\ \A f \in Fids : futures[f].cas # ""
    /\ \A i \in Positions :
          cas_series[i] = "" =>
              /\ ItemsAt(i) = {}
              /\ Slot(i) = <<None, None>>
              /\ Returned => Cell(i) = <<None, None>>

(* The batch has returned; an empty identifier stood between two           *)
(* identifiers that were resolved to values.                               *)
C6_Witness ==
    /\ Returned
    /\ Len(cas_series) = 3
    /\ cas_series[2] = ""
    /\ Cell(1) # <<None, None>>
    /\ Cell(3) # <<None, None>>
    /\ Cell(2) = <<None, None>>

----------------------------------------------------------------------------
(* C7, as stated: for every input of length n, n = 0 included, the frame   *)
(* process_file returns carries a formula sequence and a weight sequence   *)
(* of length n.                                                            *)
C7_Original ==
    Returned =>
        /\ columns.added
        /\ Len(columns.formulas) = Len(cells)
        /\ Len(columns.weights) = Len(cells)

(* C7, amended: for every input of length n >= 1, formulas and weights     *)
(* have the length of the input from their allocation on, in every state,  *)
(* and the returned frame carries both with length n; for n = 0 the frame  *)
(* is returned as read, no list is built and no column is added.           *)
C7_LengthsAligned ==
    /\ Len(formulas) = Len(weights)
    /\ Len(weights) = Len(cas_series)
    /\ pc # "read" /\ cells # <<>> =>
          /\ Len(cas_series) = Len(cells)
          /\ Len(formulas) = Len(cells)
    /\ Returned /\ cells # <<>> =>
          /\ columns.added
          /\ Len(columns.formulas) = Len(cells)
          /\ Len(columns.weights) = Len(cells)
    /\ Returned /\ cells = <<>> =>
          /\ ~columns.added
          /\ futures = <<>>

(* The batch of a three-row column has returned with both columns, one     *)
(* row having been skipped and one resolved to a value.                    *)
C7_Witness ==
    /\ Returned
    /\ Len(cells) = 3
    /\ columns.added
    /\ Len(futures) = 2
    /\ \E i \in Positions : Cell(i) # <<None, None>>

(* The empty column: process_file has returned without adding a column.    *)
C7_WitnessEmpty == Returned /\ cells = <<>> /\ ~columns.added

(* C8: process_file has returned only if every work item it created has    *)
(* finished, has been yielded by as_completed and has its result stored at *)
(* its position; every non-empty identifier got a work item.               *)
C8_ReturnAfterAll ==
    Returned /\ columns.added =>
        /\ \A f \in Fids :
              /\ futures[f].phase = "done"
              /\ f \in collected
              /\ Cell(futures[f].pos) = Seen(f)
        /\ \A i \in Positions : cas_series[i] # "" => ItemsAt(i) # {}

(* The batch has returned with three work items, one exhausted after three *)
(* failures, one resolved remotely, yielded out of submission order.       *)
C8_Witness ==
    /\ Returned
    /\ Len(futures) = 3
    /\ reordered
    /\ \E f \in Fids : Len(futures[f].log) = 3 /\ Failed(futures[f].log)
    /\ \E f \in Fids : futures[f].log # <<>> /\ ~Failed(futures[f].log)

(* C9: under fair scheduling of the main thread and the workers, with      *)
(* every request answered or timed out, process_file eventually returns    *)
(* with every work item finished.                                          *)
C9_BatchCompletes ==
    <>(Returned /\ \A f \in Fids : futures[f].phase = "done")

(* The batch has returned although the service never answered: an item ran *)
(* into three timeouts, next to an empty identifier.                       *)
C9_Witness ==
    /\ Returned
    /\ kinds = {}
    /\ \E f \in Fids : futures[f].log = <<"timeout", "timeout", "timeout">>
    /\ \E i \in Positions : cas_series[i] = ""

(* C10: no work item ever ends with an exception: an answer of any failing *)
(* kind leaves the item in its loop or, once the three attempts are used   *)
(* up, finished with (None, None); the pair stored for it is then          *)
(* (None, None).                                                           *)
C10_NeverRaises ==
    \A f \in Fids :
        LET log == futures[f].log
        IN  /\ ~futures[f].raised
            /\ log # <<>> /\ log[Len(log)] \in FailKinds =>
                  /\ futures[f].phase \in {"loop", "inflight", "done"}
                  /\ futures[f].phase = "done" =>
                        Len(log) = 3 /\ futures[f].result = <<None, None>>
                  /\ f \in collected => Slot(futures[f].pos) = <<None, None>>

(* The batch has returned with an item whose three attempts ended in a     *)
(* malformed body, an unexpected exception and a transport error.          *)
C10_Witness ==
    /\ Returned
    /\ \E f \in Fids :
          /\ futures[f].log = <<"malformed", "unexpected", "transport">>
          /\ Cell(futures[f].pos) = <<None, None>>

----------------------------------------------------------------------------
(* C11: an answer with a record whose weight float() cannot convert (the   *)
(* text "N/A", or no weight at all) ends the item at once: the item is     *)
(* finished with the record's formula and a None weight, it has sent as    *)
(* many requests as it got answers, and the pair is what the frame shows.  *)
C11_WeightParsePartial ==
    \A f \in Fids :
        LET log == futures[f].log
        IN  log # <<>> /\ log[Len(log)] \in {"ok_na", "ok_noweight"} =>
              /\ futures[f].phase = "done"
              /\ ~futures[f].raised
              /\ futures[f].calls = Len(log)
              /\ futures[f].attempt = Len(log)
              /\ futures[f].result =
                    <<RemoteTable[futures[f].cas].MolecularFormula, None>>
              /\ Returned =>
                    Cell(futures[f].pos) =
                        <<RemoteTable[futures[f].cas].MolecularFormula, None>>

(* The batch has returned with an item whose first answer carried the      *)
(* weight "N/A": one request, formula kept, weight None.                   *)
C11_Witness ==
    /\ Returned
    /\ \E f \in Fids :
          /\ futures[f].log = <<"ok_na">>
          /\ futures[f].calls = 1
          /\ Cell(futures[f].pos) = <<St("C2H6O"), None>>

(* The same with a record that has no weight, after one failed attempt.    *)
C11_WitnessAbsent ==
    /\ Returned
    /\ \E f \in Fids :
          /\ futures[f].log = <<"empty", "ok_noweight">>
          /\ futures[f].calls = 2
          /\ Cell(futures[f].pos) = <<St("C2H6O"), None>>

----------------------------------------------------------------------------
(* C12: for the column ["77536-66-4", "", "0000-00-0"] and a remote        *)
(* service that only fails, the returned frame has the formulas            *)
(* ["Ca2Fe5H2O24Si8", None, None] and the weights [970.1, None, None],     *)
(* whatever the interleaving of the workers and the main thread.           *)
C12_EndToEnd ==
    /\ cells = ExampleCells
    /\ Returned =>
          /\ columns.added
          /\ columns.formulas = <<St("Ca2Fe5H2O24Si8"), None, None>>
          /\ columns.weights = <<Fl("970.1"), None, None>>

(* The example has returned after the failing item was yielded before the  *)
(* override item, its three requests having failed in three ways.          *)
C12_Witness ==
    /\ Returned
    /\ cells = ExampleCells
    /\ reordered
    /\ Len(futures) = 2
    /\ futures[1].calls = 0
    /\ futures[2].log = <<"status", "timeout", "empty">>

----------------------------------------------------------------------------
(* C13: a missing cell of the column is the empty identifier after line    *)
(* 99, so it gets no work item, no request is sent for it and its pair     *)
(* stays (None, None).                                                     *)
C13_BlankIsEmpty ==
    pc # "read" =>
        \A i \in 1..Len(cells) :
            cells[i] = NaN =>
                /\ cas_series[i] = ""
                /\ ItemsAt(i) = {}
                /\ \A f \in Fids : futures[f].cas # "nan"
                /\ Slot(i) = <<None, None>>

(* What the program does with a missing cell under a pandas release whose  *)
(* astype(str) gives "nan": the identifier "nan" was submitted and three   *)
(* requests were sent for it.                                              *)
C13_BlankDispatched ==
    /\ Returned
    /\ \E i \in Positions, f \in Fids :
          /\ cells[i] = NaN
          /\ cas_series[i] = "nan"
          /\ futures[f].pos = i
          /\ futures[f].calls = 3

----------------------------------------------------------------------------
(* Stores of lines 141-142 made so far into index i: one for each future   *)
(* as_completed has yielded that future_to_index maps to i.                *)
Writes(i) == Cardinality({f \in collected : future_to_index[f] = i})

(* C14, as stated: every index of the result lists is written exactly once *)
(* during a run.                                                           *)
C14_Original ==
    Returned /\ columns.added => \A i \in Positions : Writes(i) = 1

(* In every state: no index has been written twice, every work item is    *)
(* mapped to the position it was created for, no two items to the same     *)
(* index; at the return the indices written are those of the non-empty     *)
(* identifiers.                                                            *)
C14_WrittenOnceInv ==
    /\ \A i \in Positions : Writes(i) <= 1
    /\ \A f \in Fids :
          /\ future_to_index[f] = futures[f].pos
          /\ futures[f].cas = cas_series[futures[f].pos]
    /\ \A f, g \in Fids : f # g => future_to_index[f] # future_to_index[g]
    /\ Returned /\ columns.added =>
          \A i \in Positions :
              Writes(i) = IF cas_series[i] = "" THEN 0 ELSE 1

(* A pair changes only in a step in which as_completed yields the work     *)
(* item created for its position.                                          *)
C14_WriteStep ==
    \A i \in 1..Len(formulas) :
        Slot(i)' # Slot(i) =>
            \E f \in collected' \ collected : futures[f].pos = i

(* C14, amended: the index of every non-empty identifier is written        *)
(* exactly once during a run, for the work item created for that index and *)
(* for no other; the index of an empty identifier is never written after   *)
(* the allocation; work items and indices correspond one-to-one, also when *)
(* an identifier occurs at several positions.                              *)
C14_WrittenOnce == []C14_WrittenOnceInv /\ [][C14_WriteStep]_vars

(* The batch has returned for a column that holds the same identifier at   *)
(* positions 1 and 3 and an empty cell between them; the two items ended   *)
(* differently and were yielded out of order.                              *)
C14_Witness ==
    /\ Returned
    /\ Len(cas_series) = 3
    /\ cas_series[1] = cas_series[3]
    /\ cas_series[2] = ""
    /\ Writes(1) = 1 /\ Writes(2) = 0 /\ Writes(3) = 1
    /\ Cell(1) # Cell(3)
    /\ reordered

----------------------------------------------------------------------------
(* The pair an identifier resolves to, given the answers its own requests  *)
(* got: the table's pair for a key of manual_data, else the record of the  *)
(* answer that succeeded, else (None, None).                               *)
ValueOf(cas, log) ==
    IF cas \in manual_keys THEN manual_data[cas]
    ELSE IF log # <<>> /\ log[Len(log)] \in OkKinds
         THEN RecordOf(cas, log[Len(log)])
         ELSE <<None, None>>

(* A finished item holds, and the returned frame shows at its position,    *)
(* the pair its own identifier and its own answers determine; at the       *)
(* return every item is finished.                                          *)
C15_OwnResult ==
    /\ \A f \in Fids :
          futures[f].phase = "done" =>
              ~futures[f].raised
              /\ futures[f].result = ValueOf(futures[f].cas, futures[f].log)
    /\ Returned /\ columns.added =>
          \A f \in Fids :
              /\ futures[f].phase = "done"
              /\ Cell(futures[f].pos) = ValueOf(futures[f].cas, futures[f].log)

(* A step changes at most one work item, and never a finished one.         *)
C15_OwnStep ==
    \A f \in Fids :
        /\ futures[f].phase = "done" => futures'[f] = futures[f]
        /\ futures'[f] # futures[f] =>
              \A g \in Fids \ {f} : futures'[g] = futures[g]

(* C15: a work item that uses up its attempts neither changes, stops nor   *)
(* cancels another: every step changes one item only, every item is        *)
(* finished at the return, and the pair shown for an item depends on its   *)
(* own identifier and its own answers only, so it is the same whether      *)
(* another item failed or succeeded.                                       *)
C15_FaultIsolation == []C15_OwnResult /\ [][C15_OwnStep]_vars

(* The batch has returned with two items for the same identifier: the      *)
(* older one used up its three attempts, the younger one got a record and  *)
(* was yielded first.                                                      *)
C15_Witness ==
    /\ Returned
    /\ reordered
    /\ \E f, g \in Fids :
          /\ f < g
          /\ futures[f].cas = futures[g].cas
          /\ Len(futures[f].log) = 3 /\ Failed(futures[f].log)
          /\ Cell(futures[f].pos) = <<None, None>>
          /\ Cell(futures[g].pos) = <<St("CH2O"), Fl("30.026")>>

----------------------------------------------------------------------------
(* The submission loop has handled position i. *)
Passed(i) == pc \in {"collect", "returned"} \/ (pc = "submit" /\ idx > i)

(* C16, as stated: no work item is created for an identifier that is a key *)
(* of manual_data; only non-empty identifiers that miss the table are      *)
(* submitted to the pool.                                                  *)
C16_Original ==
    \A f \in Fids : futures[f].cas \notin manual_keys

(* C16, amended: every non-empty identifier, keys of manual_data included, *)
(* is submitted to the pool as a work item; the table is looked up by the  *)
(* worker that runs the item, which finishes it with the table's pair      *)
(* without sending a request; until as_completed yields the item its pair  *)
(* in the lists is still (None, None), afterwards it is the table's pair.  *)
C16_OverrideInPool ==
    /\ \A i \in Positions :
          Passed(i) => (ItemsAt(i) # {} <=> cas_series[i] # "")
    /\ \A f \in Fids :
          futures[f].cas \in manual_keys =>
              /\ futures[f].calls = 0
              /\ futures[f].phase \in {"queued", "begin", "done"}
              /\ f \notin collected => Slot(futures[f].pos) = <<None, None>>
              /\ f \in collected =>
                    Slot(futures[f].pos) = manual_data[futures[f].cas]

(* The submission loop is over and the item of an override key is still    *)
(* waiting in the pool's queue, nothing being stored for it yet.           *)
C16_Witness ==
    /\ pc = "collect"
    /\ \E f \in Fids :
          /\ futures[f].cas = "77536-66-4"
          /\ futures[f].phase = "queued"
          /\ Slot(futures[f].pos) = <<None, None>>

(* The item of an override key occupies a worker. *)
C16_WitnessRunning ==
    \E f \in Fids : futures[f].cas = "77536-66-4" /\ futures[f].phase = "begin"

----------------------------------------------------------------------------
(* The four kinds of failed attempt the claim names. *)
RetriedKinds == {"transport", "timeout", "status", "empty"}

(* C17: an answer with a status other than 200 and an answer with an empty *)
(* property list are failed attempts like a transport error or a timeout:  *)
(* whatever the mix and order of the four, each uses one of the same three *)
(* attempts, the item goes on to its next attempt after each, and it is    *)
(* finished only by the third failure, with (None, None).                  *)
C17_SameBudget ==
    \A f \in Fids :
        LET log == futures[f].log
            n == Len(log)
        IN  n > 0 /\ (\A j \in 1..n : log[j] \in RetriedKinds) =>
              /\ futures[f].phase \in {"loop", "inflight", "done"}
              /\ futures[f].attempt =
                    n + (IF futures[f].phase = "inflight" THEN 1 ELSE 0)
              /\ futures[f].calls = futures[f].attempt
              /\ futures[f].calls <= 3
              /\ futures[f].phase = "done" =>
                    n = 3 /\ futures[f].result = <<None, None>>
              /\ Returned => n = 3

(* The batch has returned with an item that met a bad status, an empty     *)
(* property list and a timeout, in that order.                             *)
C17_Witness ==
    /\ Returned
    /\ \E f \in Fids :
          /\ futures[f].log = <<"status", "empty", "timeout">>
          /\ futures[f].calls = 3
          /\ Cell(futures[f].pos) = <<None, None>>

(* An item is on its third attempt after a transport error and an empty    *)
(* property list.                                                          *)
C17_WitnessRetry ==
    \E f \in Fids :
        /\ futures[f].log = <<"transport", "empty">>
        /\ futures[f].phase = "inflight"
        /\ futures[f].attempt = 3

----------------------------------------------------------------------------
(* C18, as stated: identifiers are trimmed before use: a cell that is a    *)
(* key of manual_data but for blanks before or after it gets the table's   *)
(* pair without a request, and a cell of blanks only is the empty          *)
(* identifier (no work item).                                              *)
C18_Original ==
    /\ \A f \in Fids :
          Strip(cells[futures[f].pos]) \in manual_keys =>
              /\ futures[f].calls = 0
              /\ futures[f].phase = "done" =>
                    futures[f].result = manual_data[Strip(cells[futures[f].pos])]
    /\ \A i \in Positions : Strip(cells[i]) = "" => ItemsAt(i) = {}

(* C18, amended: identifiers are used as the text of the cell, untrimmed:  *)
(* a cell that differs from a key of manual_data by blanks before or after *)
(* it misses the table and is looked up remotely like any unknown          *)
(* identifier (its pair is what the remote answers give, after at least    *)
(* one request), and a cell of blanks only is a non-empty identifier that  *)
(* is submitted and looked up remotely as well.                            *)
C18_Untrimmed ==
    /\ \A i \in Positions : cells[i] # NaN => cas_series[i] = cells[i]
    /\ \A i \in Positions :
          Passed(i) /\ cells[i] \notin {"", NaN} => ItemsAt(i) # {}
    /\ \A f \in Fids :
          futures[f].cas \notin manual_keys =>
              /\ futures[f].phase \notin {"queued", "begin"} =>
                    futures[f].calls >= 1 \/ futures[f].phase = "loop"
              /\ futures[f].phase = "done" =>
                    /\ futures[f].calls >= 1
                    /\ futures[f].result = ValueOf(futures[f].cas, futures[f].log)

(* The batch has returned: the padded key " 77536-66-4" was requested      *)
(* three times and got (None, None), next to a cell of blanks that was     *)
(* requested three times too.                                              *)
C18_Witness ==
    /\ Returned
    /\ \E f, g \in Fids :
          /\ futures[f].cas = " 77536-66-4"
          /\ futures[f].calls = 3
          /\ Cell(futures[f].pos) = <<None, None>>
          /\ futures[g].cas = "  "
          /\ futures[g].calls = 3

----------------------------------------------------------------------------
HasOk(log) == \E j \in 1..Len(log) : log[j] \in OkKinds

(* The attempt that first got a record. *)
FirstOk(log) ==
    CHOOSE j \in 1..Len(log) :
        log[j] \in OkKinds /\ \A h \in 1..(j - 1) : log[h] \notin OkKinds

(* How far a work item has got. *)
Rank(phase) ==
    CASE phase = "queued" -> 0
      [] phase = "begin" -> 1
      [] phase \in {"loop", "inflight"} -> 2
      [] phase = "done" -> 3

(* C19, as stated: every work item, once finished, has sent as many        *)
(* requests as the number of its first successful attempt, or 3 if none    *)
(* succeeded.                                                              *)
C19_Original ==
    \A f \in Fids :
        futures[f].phase = "done" =>
            futures[f].calls =
                IF HasOk(futures[f].log) THEN FirstOk(futures[f].log) ELSE 3

(* In every state: an item for a key of manual_data has sent no request;   *)
(* any other item has no answer after a successful one, is finished as     *)
(* soon as it has one, and once finished has sent as many requests as the  *)
(* number of its first successful attempt, or 3 if none succeeded.         *)
C19_CallsInv ==
    \A f \in Fids :
        LET log == futures[f].log
        IN  IF futures[f].cas \in manual_keys
            THEN futures[f].calls = 0 /\ log = <<>>
            ELSE /\ \A j \in 1..(Len(log) - 1) : log[j] \in FailKinds
                 /\ HasOk(log) => futures[f].phase = "done"
                 /\ futures[f].calls <= 3
                 /\ futures[f].phase = "done" =>
                       futures[f].calls =
                           IF HasOk(log) THEN FirstOk(log) ELSE 3

(* A finished item never changes again, no item goes back to an earlier    *)
(* phase, work items are never removed or replaced.                        *)
C19_Absorbing ==
    /\ Len(futures') >= Len(futures)
    /\ \A f \in Fids :
          /\ futures[f].phase = "done" => futures'[f] = futures[f]
          /\ Rank(futures'[f].phase) >= Rank(futures[f].phase)
          /\ futures'[f].calls >= futures[f].calls
          /\ futures'[f].cas = futures[f].cas

(* C19, amended: each work item is run at most once and stops at its first *)
(* terminal outcome: an item whose identifier misses manual_data has sent, *)
(* when finished, as many requests as the number of its first successful   *)
(* attempt, or 3 if none of its attempts succeeded; an item whose          *)
(* identifier is a key of manual_data has sent none; no request is sent    *)
(* after a successful attempt or after the third failure, and a finished   *)
(* item is never run again.                                                *)
C19_AtMostOnce == []C19_CallsInv /\ [][C19_Absorbing]_vars

(* The batch has returned with an item that failed once and then got a     *)
(* record: two requests, none after the record.                            *)
C19_Witness ==
    /\ Returned
    /\ \E f \in Fids :
          /\ futures[f].log = <<"malformed", "ok">>
          /\ futures[f].calls = 2
          /\ FirstOk(futures[f].log) = 2

(* The batch has returned with the item of an override key: finished       *)
(* without any request.                                                    *)
C19_WitnessOverride ==
    /\ Returned
    /\ \E f \in Fids :
          futures[f].cas = "1332-21-4" /\ futures[f].phase = "done"
          /\ futures[f].calls = 0

====
